---- MODULE Spec2Model ----
(***************************************************************************)
(* A model of scst_local (src/scst_local/scst_local.c): the registry of    *)
(* targets and sessions, the two-phase session removal, the AEN work       *)
(* queue, the exit rwsem, and the synchronous task-management calls.       *)
(*                                                                         *)
(* Kernel and SCST-core primitives are modelled by their contracts:        *)
(*   spin_lock sections are single atomic steps;                           *)
(*   mutex_lock blocks until the mutex is free;                            *)
(*   down_read_trylock fails iff a writer holds the rwsem;                 *)
(*   down_write waits until no reader holds it;                            *)
(*   queue_work sets the work's pending bit unless already set;            *)
(*   cancel_work_sync clears the pending bit and waits for a running       *)
(*   execution of that work to end;                                        *)
(*   device_unregister calls the bus remove callback and then the          *)
(*   device's release callback in the caller's context.                    *)
(***************************************************************************)
EXTENDS Integers, Sequences, FiniteSets, TLC

(* ------------------------------ bounds -------------------------------- *)
\* number of target objects ever allocated
MaxTgt == 2
\* largest session sequence number scst_local_sess_num may reach
MaxSess == 2
\* number of AENs the engine reports
MaxAen == 2
\* number of task-management calls
MaxMgmt == 2
\* number of commands the initiator side submits
MaxCmd == 2

\* largest sess->number of a session the engine asks a Transport ID of
MaxNumber == 257

TgtIds == 1..MaxTgt
SessIds == 1..MaxSess
AenIds == 1..MaxAen
MgmtIds == 1..MaxMgmt
CmdIds == 1..MaxCmd

\* target names and initiator (session) names the administrator uses
TgtNames == {"T"}
\* a target name that is never registered
AbsentNames == {"U"}
InitNames == {"H"}

\* threads of control entering through the administrative surface,
\* and the thread running module exit
Admins == {"a1"}
\* a second caller of the management entry points, for the calls that race
Racers == Admins \cup {"a2"}
Threads == Racers \cup {"exit"}

\* two sessions registered with the engine, and the numbers they can have
TidSlots == 1..2
Numbers == 1..MaxNumber

NoTgt == 0
NoSess == 0
NoAen == 0

VARIABLES
    \* Registry
    scst_local_tgts_list,   \* Seq(TgtIds): the list of targets
    tgtState,               \* TgtIds -> "none" | "live" | "freed"
    tgtName,                \* TgtIds -> name under which it is registered
    sessions_list,          \* TgtIds -> Seq(SessIds): tgt->sessions_list
    nextTgt,                \* number of target objects allocated so far
    \* Sessions
    scst_local_sess_num,    \* the process-wide session counter
    sessState,              \* SessIds -> "none" | "registered" | "active" | "released"
    sessName,               \* SessIds -> initiator name
    sessTgt,                \* SessIds -> sess->tgt
    unregistering,          \* SessIds -> BOOLEAN: the latch
    shost,                  \* SessIds -> BOOLEAN: sess->shost != NULL
    aen_work_list,          \* SessIds -> Seq(AenIds)
    workPending,            \* SessIds -> BOOLEAN: aen_work is queued
    wpc,                    \* SessIds -> position of the running aen_work
    wrun,                   \* SessIds -> executions of aen_work in flight (0..2)
    wcur,                   \* SessIds -> item the worker holds, or NoAen
    wshost,                 \* SessIds -> BOOLEAN: worker's local shost
    rm,                     \* SessIds -> position of the session's removal
    \* AENs
    aenPc,                  \* AenIds -> position of the report_aen call
    aenSess,                \* AenIds -> session whose latch the report tested
    acks,                   \* AenIds -> number of scst_aen_done calls
    delivery,               \* AenIds -> how the item left the list: "none" (still
                            \* queued, or popped by the worker with the latch
                            \* clear) | "latepop" (popped by the worker with the
                            \* latch set) | "rescan" (rescanned) | "late"
                            \* (rescanned after a pop with the latch set) |
                            \* "drain" (popped by the cleanup-only pass)
    \* Locks
    exit_rwsem,             \* [writer: BOOLEAN, readers: SUBSET Threads]
    scst_local_mutex,       \* holder, a thread, or "none"
    aen_workqueue,          \* "none" | "live" | "destroyed"
    \* Threads
    pc,                     \* Threads -> position
    op,                     \* Threads -> the call in progress
    \* History
    removeStarts,           \* SessIds -> number of removals started or scheduled
    \* Task management
    mpc,                    \* MgmtIds -> position of the caller
    mfn,                    \* MgmtIds -> "abort" | "lun_reset" | "target_reset"
    mret,                   \* MgmtIds -> return value of scst_rx_mgmt_fn_*
    mEngine,                \* MgmtIds -> "none" | "pending" | "fired"
    mCompl,                 \* MgmtIds -> "none" | "live" | "done" | "dead"
    mResult,                \* MgmtIds -> what the call returned
    mLate,                  \* MgmtIds -> BOOLEAN: complete() on a dead completion
    mFound,                 \* MgmtIds -> BOOLEAN: the engine found the command or device
    num_aborts,
    num_dev_resets,
    num_target_resets,
    \* Commands
    cpc,                    \* CmdIds -> position of the scst_local_queuecommand call:
                            \* "new" | "rx" | "init" | "engine" | "bad_target" | "busy" | "responded"
    cmdSess,                \* CmdIds -> session of the host the command came in on
    cmdDone,                \* CmdIds -> number of scsi_done calls
    cmdLate,                \* CmdIds -> BOOLEAN: passed to the engine with the latch set
    cmdResp,                \* CmdIds -> what scst_local_targ_xmit_response did with the command
    \* Transport IDs
    tidNumber,              \* TidSlots -> sess->number of a session the engine asks about
    transport_id            \* TidSlots -> *transport_id as last given to the engine

regVars == <<scst_local_tgts_list, tgtState, tgtName, sessions_list, nextTgt>>
sessVars == <<scst_local_sess_num, sessState, sessName, sessTgt, unregistering, shost, rm, removeStarts>>
queueVars == <<aen_work_list, workPending>>
workVars == <<wpc, wcur, wshost, wrun>>
aenVars == <<aenPc, aenSess>>
ackVars == <<acks, delivery>>
lockVars == <<exit_rwsem, scst_local_mutex, aen_workqueue>>
thrVars == <<pc, op>>
tmVars == <<mpc, mfn, mret, mEngine, mCompl, mResult, mLate, mFound, num_aborts, num_dev_resets, num_target_resets>>
cmdVars == <<cpc, cmdSess, cmdDone, cmdLate, cmdResp>>
tidVars == <<tidNumber, transport_id>>
vars == <<regVars, sessVars, queueVars, workVars, aenVars, ackVars, lockVars, thrVars, tmVars, cmdVars, tidVars>>

(* ------------------------------ helpers ------------------------------- *)
SeqToSet(q) == {q[i] : i \in 1..Len(q)}

SeqRemove(q, x) == SelectSeq(q, LAMBDA y : y # x)

Min(a, b) == IF a < b THEN a ELSE b

NoResp == [aborted |-> FALSE, delivery |-> "none", copied |-> {}, tgt_done |-> 0]
\* a uint8_t **transport_id the driver has not written to
NoTid == [i \in 0..23 |-> 0]
NoOp == [kind |-> "none", name |-> "", sname |-> "", withSess |-> FALSE, locked |-> FALSE,
         tgt |-> NoTgt, sess |-> NoSess, seen |-> {}, res |-> "OK"]

(* ------------------------------- Init --------------------------------- *)
\* scst_local_init with add_default_tgt: target 1 with session 1, or nothing
InitRegistry(dflt) ==
    /\ scst_local_tgts_list = IF dflt THEN <<1>> ELSE <<>>
    /\ tgtState = [t \in TgtIds |-> IF dflt /\ t = 1 THEN "live" ELSE "none"]
    /\ tgtName = [t \in TgtIds |-> "T"]
    /\ sessions_list = [t \in TgtIds |-> IF dflt /\ t = 1 THEN <<1>> ELSE <<>>]
    /\ nextTgt = IF dflt THEN 1 ELSE 0
    /\ scst_local_sess_num = IF dflt THEN 1 ELSE 0
    /\ sessState = [s \in SessIds |-> IF dflt /\ s = 1 THEN "active" ELSE "none"]
    /\ sessName = [s \in SessIds |-> "H"]
    /\ sessTgt = [s \in SessIds |-> IF dflt /\ s = 1 THEN 1 ELSE NoTgt]
    /\ shost = [s \in SessIds |-> dflt /\ s = 1]

InitMain ==
    /\ \E dflt \in BOOLEAN : InitRegistry(dflt)
    /\ unregistering = [s \in SessIds |-> FALSE]
    /\ aen_work_list = [s \in SessIds |-> <<>>]
    /\ workPending = [s \in SessIds |-> FALSE]
    /\ wpc = [s \in SessIds |-> "idle"]
    /\ wrun = [s \in SessIds |-> 0]
    /\ wcur = [s \in SessIds |-> NoAen]
    /\ wshost = [s \in SessIds |-> FALSE]
    /\ rm = [s \in SessIds |-> "none"]
    /\ removeStarts = [s \in SessIds |-> 0]
    /\ aenPc = [a \in AenIds |-> "new"]
    /\ aenSess = [a \in AenIds |-> NoSess]
    /\ acks = [a \in AenIds |-> 0]
    /\ delivery = [a \in AenIds |-> "none"]
    /\ exit_rwsem = [writer |-> FALSE, readers |-> {}]
    /\ scst_local_mutex = "none"
    /\ aen_workqueue = "live"
    /\ pc = [t \in Threads |-> "idle"]
    /\ op = [t \in Threads |-> NoOp]
    /\ mpc = [m \in MgmtIds |-> "idle"]
    /\ mfn = [m \in MgmtIds |-> "abort"]
    /\ mret = [m \in MgmtIds |-> 0]
    /\ mEngine = [m \in MgmtIds |-> "none"]
    /\ mCompl = [m \in MgmtIds |-> "none"]
    /\ mResult = [m \in MgmtIds |-> "none"]
    /\ mLate = [m \in MgmtIds |-> FALSE]
    /\ mFound = [m \in MgmtIds |-> FALSE]
    /\ num_aborts = 0
    /\ num_dev_resets = 0
    /\ num_target_resets = 0
    /\ cpc = [c \in CmdIds |-> "new"]
    /\ cmdSess = [c \in CmdIds |-> NoSess]
    /\ cmdDone = [c \in CmdIds |-> 0]
    /\ cmdLate = [c \in CmdIds |-> FALSE]
    /\ cmdResp = [c \in CmdIds |-> NoResp]

\* the state after scst_local_init; the engine has asked for no Transport ID
Init ==
    /\ InitMain
    /\ tidNumber = [x \in TidSlots |-> x]
    /\ transport_id = [x \in TidSlots |-> NoTid]

\* two sessions with the numbers the counter gave them, the first one
\* created before the second
TidInit ==
    /\ InitMain
    /\ tidNumber \in {f \in [TidSlots -> Numbers] : f[1] < f[2]}
    /\ transport_id = [x \in TidSlots |-> NoTid]

(* ------------------------- AEN report and worker ---------------------- *)
\* the engine holds the session: it may call report_aen on it
EngineHolds(s) == sessState[s] \in {"registered", "active"}

\* a queue_work that queues nothing
queue_work_dropped(pending) == pending

\* queue_work(aen_workqueue, &sess->aen_work): a work already pending is
\* not queued again
queue_work(pending) == TRUE

\* a latch test that refuses nothing
ReportNeverRefuses(latch) == FALSE

\* scst_local_report_aen: if (unlikely(sess->unregistering)), under aen_lock
ReportRefuses(latch) == latch

\* scst_local_report_aen, from entry to spin_unlock: the latch test and
\* list_add_tail under aen_lock
ReportEnqueue(a, s, event_fn, alloc_ok) ==
    /\ aenPc[a] = "new"
    /\ \A b \in AenIds : b < a => aenPc[b] # "new"
    /\ EngineHolds(s)
    /\ IF event_fn # "SCST_AEN_SCSI"
       THEN /\ aenPc' = [aenPc EXCEPT ![a] = "NOT_SUPPORTED"]
            /\ UNCHANGED <<aen_work_list, aenSess>>
       ELSE IF ~alloc_ok
       THEN /\ aenPc' = [aenPc EXCEPT ![a] = "ENOMEM"]
            /\ UNCHANGED <<aen_work_list, aenSess>>
       ELSE IF ReportRefuses(unregistering[s])
       THEN /\ aenPc' = [aenPc EXCEPT ![a] = "NOT_SUPPORTED"]
            /\ aenSess' = [aenSess EXCEPT ![a] = s]
            /\ UNCHANGED aen_work_list
       ELSE /\ aenPc' = [aenPc EXCEPT ![a] = "enq"]
            /\ aenSess' = [aenSess EXCEPT ![a] = s]
            /\ aen_work_list' = [aen_work_list EXCEPT ![s] = Append(@, a)]
    /\ UNCHANGED <<regVars, sessVars, workPending, workVars, ackVars, lockVars, thrVars, tmVars, cmdVars, tidVars>>

\* scst_local_report_aen, the queue_work call after the unlock. On a session
\* already released, or a workqueue already destroyed, the call may touch
\* freed memory: it either queues the work or has no effect.
ReportSchedule(a, stale_takes) ==
    /\ aenPc[a] = "enq"
    /\ aenPc' = [aenPc EXCEPT ![a] = "done"]
    /\ LET s == aenSess[a]
           dead == sessState[s] = "released" \/ aen_workqueue # "live"
       IN  workPending' = [workPending EXCEPT ![s] =
               IF dead THEN (@ \/ (stale_takes /\ aen_workqueue = "live")) ELSE queue_work(@)]
    /\ UNCHANGED <<regVars, sessVars, aen_work_list, workVars, aenSess, ackVars, lockVars, thrVars, tmVars, cmdVars, tidVars>>

\* a workqueue thread that is free whatever is running
worker_thread_free_always(w) == TRUE

\* create_singlethread_workqueue("scstlclaen"): the one thread of
\* aen_workqueue is free when no aen_work of any session is running
worker_thread_free(w) == \A t \in SessIds : w[t] = "idle"

\* the single thread of aen_workqueue takes a pending aen_work
WorkStart(s) ==
    /\ workPending[s]
    /\ aen_workqueue = "live"
    /\ worker_thread_free(wpc)
    /\ workPending' = [workPending EXCEPT ![s] = FALSE]
    /\ wpc' = [wpc EXCEPT ![s] = "pop"]
    /\ wrun' = [wrun EXCEPT ![s] = Min(@ + 1, 2)]
    /\ UNCHANGED <<regVars, sessVars, aen_work_list, wcur, wshost, aenVars, ackVars, lockVars, thrVars, tmVars, cmdVars, tidVars>>

\* a list that always looks empty
list_empty_always(q) == TRUE

\* scst_process_aens: while (!list_empty(&sess->aen_work_list))
list_empty(q) == q = <<>>

\* a pop that leaves the head on the list
list_del_first_keeps(q) == q

\* list_first_entry + list_del in scst_process_aens
list_del_first(q) == Tail(q)

\* a pass that rescans whatever it is called for
RescanAlways(cleanup_only, host) == TRUE

\* scst_process_aens: whether the popped item is rescanned
DoRescan(cleanup_only, host) == ~cleanup_only /\ host

\* scst_aen_work_fn / scst_process_aens(sess, false): the loop test and the
\* pop under aen_lock; the loop ends, and the work with it, on an empty list
WorkPop(s) ==
    /\ wpc[s] = "pop"
    /\ IF list_empty(aen_work_list[s])
       THEN /\ wpc' = [wpc EXCEPT ![s] = "idle"]
            /\ wrun' = [wrun EXCEPT ![s] = IF @ > 0 THEN @ - 1 ELSE 0]
            /\ UNCHANGED <<aen_work_list, wcur, wshost, delivery>>
       ELSE /\ wcur' = [wcur EXCEPT ![s] = Head(aen_work_list[s])]
            /\ delivery' = [delivery EXCEPT ![Head(aen_work_list[s])] =
                               IF unregistering[s] THEN "latepop" ELSE @]
            /\ aen_work_list' = [aen_work_list EXCEPT ![s] = list_del_first(@)]
            /\ wshost' = [wshost EXCEPT ![s] = shost[s]]
            /\ wpc' = [wpc EXCEPT ![s] = IF DoRescan(FALSE, shost[s]) THEN "scan" ELSE "ack"]
            /\ UNCHANGED wrun
    /\ UNCHANGED <<regVars, sessVars, workPending, aenVars, acks, lockVars, thrVars, tmVars, cmdVars, tidVars>>

\* scsi_scan_target on the host the worker holds
WorkRescan(s) ==
    /\ wpc[s] = "scan"
    /\ delivery' = [delivery EXCEPT ![wcur[s]] = IF @ = "latepop" THEN "late" ELSE "rescan"]
    /\ wpc' = [wpc EXCEPT ![s] = "ack"]
    /\ UNCHANGED <<regVars, sessVars, queueVars, wcur, wshost, wrun, aenVars, acks, lockVars, thrVars, tmVars, cmdVars, tidVars>>

\* scst_aen_done, kfree(work_item), scsi_host_put
WorkAck(s) ==
    /\ wpc[s] = "ack"
    /\ acks' = [acks EXCEPT ![wcur[s]] = Min(@ + 1, 2)]
    /\ wcur' = [wcur EXCEPT ![s] = NoAen]
    /\ wshost' = [wshost EXCEPT ![s] = FALSE]
    /\ wpc' = [wpc EXCEPT ![s] = "pop"]
    /\ UNCHANGED <<regVars, sessVars, queueVars, wrun, aenVars, delivery, lockVars, thrVars, tmVars, cmdVars, tidVars>>

(* --------------------------- session removal -------------------------- *)
\* a close that flips the latch
LatchFlipped(old) == ~old

\* scst_local_close_session_impl: sess->unregistering = 1
LatchAfterClose(old) == TRUE

\* a close that goes on whatever it read
CloseProceedsAlways(old) == TRUE

\* scst_local_close_session_impl: only the caller that read the latch as
\* clear goes on to remove the session
CloseProceeds(old) == ~old

\* scst_local_close_session -> scst_local_close_session_impl(sess, true):
\* the engine's callback. The engine calls it on sessions whose
\* registration has completed.
CloseSessionAsync(s) ==
    /\ sessState[s] = "active"
    /\ unregistering' = [unregistering EXCEPT ![s] = LatchAfterClose(@)]
    /\ IF CloseProceeds(unregistering[s])
       THEN /\ rm' = [rm EXCEPT ![s] = "sched"]
            /\ removeStarts' = [removeStarts EXCEPT ![s] = Min(@ + 1, 2)]
       ELSE UNCHANGED <<rm, removeStarts>>
    /\ UNCHANGED <<regVars, scst_local_sess_num, sessState, sessName, sessTgt, shost, queueVars, workVars, aenVars, ackVars, lockVars, thrVars, tmVars, cmdVars, tidVars>>

\* scst_remove_work_fn: the scheduled remove_work starts scst_local_remove_adapter
RemoveWorkFn(s) ==
    /\ rm[s] = "sched"
    /\ rm' = [rm EXCEPT ![s] = "unlink"]
    /\ UNCHANGED <<regVars, scst_local_sess_num, sessState, sessName, sessTgt, unregistering, shost, removeStarts, queueVars, workVars, aenVars, ackVars, lockVars, thrVars, tmVars, cmdVars, tidVars>>

\* scst_local_remove_adapter: list_del(&sess->sessions_list_entry)
RemoveAdapterUnlink(s) ==
    /\ rm[s] = "unlink"
    /\ sessions_list' = [sessions_list EXCEPT ![sessTgt[s]] = SeqRemove(@, s)]
    /\ rm' = [rm EXCEPT ![s] = "detach"]
    /\ UNCHANGED <<scst_local_tgts_list, tgtState, tgtName, nextTgt, scst_local_sess_num, sessState, sessName, sessTgt, unregistering, shost, removeStarts, queueVars, workVars, aenVars, ackVars, lockVars, thrVars, tmVars, cmdVars, tidVars>>

\* device_unregister -> scst_local_driver_remove: swap(sess->shost, NULL)
\* under aen_lock, scsi_remove_host, scsi_host_put
DriverRemove(s) ==
    /\ rm[s] = "detach"
    /\ shost' = [shost EXCEPT ![s] = FALSE]
    /\ rm' = [rm EXCEPT ![s] = "cancel"]
    /\ UNCHANGED <<regVars, scst_local_sess_num, sessState, sessName, sessTgt, unregistering, removeStarts, queueVars, workVars, aenVars, ackVars, lockVars, thrVars, tmVars, cmdVars, tidVars>>

\* a cancel that also waits until the worker has delivered the whole list
CancelWaitsForDelivery(s) == wpc[s] = "idle" /\ aen_work_list[s] = <<>>

\* cancel_work_sync: may return once no execution of the work is running
CancelMayReturn(s) == wpc[s] = "idle"

\* scst_local_release_adapter: cancel_work_sync(&sess->aen_work)
ReleaseCancel(s) ==
    /\ rm[s] = "cancel"
    /\ CancelMayReturn(s)
    /\ workPending' = [workPending EXCEPT ![s] = FALSE]
    /\ rm' = [rm EXCEPT ![s] = "drain"]
    /\ UNCHANGED <<regVars, scst_local_sess_num, sessState, sessName, sessTgt, unregistering, shost, removeStarts, aen_work_list, workVars, aenVars, ackVars, lockVars, thrVars, tmVars, cmdVars, tidVars>>

\* scst_local_release_adapter: scst_process_aens(sess, true), one item:
\* popped under aen_lock, acknowledged without a rescan
ReleaseDrainItem(s) ==
    /\ rm[s] = "drain"
    /\ ~list_empty(aen_work_list[s])
    /\ LET a == Head(aen_work_list[s])
       IN  /\ aen_work_list' = [aen_work_list EXCEPT ![s] = list_del_first(@)]
           /\ delivery' = [delivery EXCEPT ![a] = IF DoRescan(TRUE, shost[s]) THEN "late" ELSE "drain"]
           /\ acks' = [acks EXCEPT ![a] = Min(@ + 1, 2)]
    /\ UNCHANGED <<regVars, sessVars, workPending, workVars, aenVars, lockVars, thrVars, tmVars, cmdVars, tidVars>>

\* scst_local_release_adapter: the drain loop ends on an empty list
ReleaseDrainEnd(s) ==
    /\ rm[s] = "drain"
    /\ list_empty(aen_work_list[s])
    /\ rm' = [rm EXCEPT ![s] = "unreg"]
    /\ UNCHANGED <<regVars, scst_local_sess_num, sessState, sessName, sessTgt, unregistering, shost, removeStarts, queueVars, workVars, aenVars, ackVars, lockVars, thrVars, tmVars, cmdVars, tidVars>>

\* scst_local_release_adapter: scst_unregister_session(sess, false,
\* scst_local_free_sess): from here on the engine may call scst_local_free_sess,
\* which frees the session, at any moment
ReleaseUnregister(s) ==
    /\ rm[s] = "unreg"
    /\ sessState' = [sessState EXCEPT ![s] = "released"]
    /\ rm' = [rm EXCEPT ![s] = "done"]
    /\ UNCHANGED <<regVars, scst_local_sess_num, sessName, sessTgt, unregistering, shost, removeStarts, queueVars, workVars, aenVars, ackVars, lockVars, thrVars, tmVars, cmdVars, tidVars>>

(* ----------------------- administrative surface ----------------------- *)
\* a trylock that succeeds against a writer
down_read_trylock_always(sem) == TRUE

\* down_read_trylock(&scst_local_exit_rwsem)
down_read_trylock(sem) == ~sem.writer

\* a lookup that takes the first target of the list whatever its name
FindTargetAny(name) ==
    IF scst_local_tgts_list = <<>> THEN NoTgt ELSE Head(scst_local_tgts_list)

\* the first target in scst_local_tgts_list registered under this name, or NoTgt
FindTarget(name) ==
    LET hits == SelectSeq(scst_local_tgts_list, LAMBDA x : tgtName[x] = name)
    IN  IF hits = <<>> THEN NoTgt ELSE Head(hits)

\* the first session in tgt->sessions_list with this initiator name, or NoSess
FindSession(tg, sname) ==
    LET hits == SelectSeq(sessions_list[tg], LAMBDA x : sessName[x] = sname)
    IN  IF hits = <<>> THEN NoSess ELSE Head(hits)

\* scst_register_target rejects a name that is already registered
EngineHasTarget(name) == \E x \in TgtIds : tgtState[x] = "live" /\ tgtName[x] = name

\* where a thread continues once its call of __scst_local_add_adapter returned
AfterAddAdapter(kind, res) == IF kind = "add_target" /\ res # "OK" THEN "rt_lock" ELSE "ret"

\* entry of scst_local_sysfs_add_target, scst_local_sysfs_del_target and
\* scst_local_sysfs_mgmt_cmd when down_read_trylock fails: the call goes
\* straight to its return of -ENOENT, holding nothing
EnterRefused(t, kind, name, sname, withSess) ==
    /\ op' = [op EXCEPT ![t] = [NoOp EXCEPT !.kind = kind, !.name = name, !.sname = sname,
                                 !.withSess = withSess, !.res = "ENOENT"]]
    /\ pc' = [pc EXCEPT ![t] = "ret"]
    /\ UNCHANGED <<regVars, sessVars, queueVars, workVars, aenVars, ackVars, lockVars, tmVars, cmdVars, tidVars>>

\* scst_local_sysfs_add_target up to the return of scst_local_add_target:
\* the trylock, kzalloc, scst_register_target, list_add_tail under
\* scst_local_mutex
SysfsAddTarget(t, name, withSess, fail) ==
    /\ pc[t] = "idle"
    /\ nextTgt < MaxTgt
    /\ IF ~down_read_trylock(exit_rwsem)
       THEN EnterRefused(t, "add_target", name, "", withSess)
       ELSE /\ exit_rwsem' = [exit_rwsem EXCEPT !.readers = @ \cup {t}]
            /\ IF fail # "none" \/ EngineHasTarget(name)
               THEN /\ op' = [op EXCEPT ![t] = [NoOp EXCEPT !.kind = "add_target", !.name = name,
                               !.res = IF fail = "ENOMEM" THEN "ENOMEM" ELSE "EFAULT"]]
                    /\ pc' = [pc EXCEPT ![t] = "ret"]
                    /\ UNCHANGED regVars
               ELSE /\ scst_local_mutex = "none"
                    /\ nextTgt' = nextTgt + 1
                    /\ tgtState' = [tgtState EXCEPT ![nextTgt + 1] = "live"]
                    /\ tgtName' = [tgtName EXCEPT ![nextTgt + 1] = name]
                    /\ sessions_list' = [sessions_list EXCEPT ![nextTgt + 1] = <<>>]
                    /\ scst_local_tgts_list' = Append(scst_local_tgts_list, nextTgt + 1)
                    /\ op' = [op EXCEPT ![t] = [NoOp EXCEPT !.kind = "add_target", !.name = name,
                               !.sname = IF withSess THEN "H" ELSE "", !.withSess = withSess,
                               !.tgt = nextTgt + 1]]
                    /\ pc' = [pc EXCEPT ![t] = IF withSess THEN "aa_alloc" ELSE "ret"]
            /\ UNCHANGED <<sessVars, queueVars, workVars, aenVars, ackVars, scst_local_mutex, aen_workqueue, tmVars, cmdVars, tidVars>>

\* a counter that stops counting at 1
atomic_inc_return_stuck(v) == IF v = 0 THEN 1 ELSE v

\* sess->number = atomic_inc_return(&scst_local_sess_num)
atomic_inc_return(v) == v + 1

\* __scst_local_add_adapter: kzalloc, the sequence number, the work and list
\* initialisation, scst_register_session
AddAdapterAlloc(t, fail) ==
    /\ pc[t] = "aa_alloc"
    /\ IF fail = "ENOMEM"
       THEN /\ op' = [op EXCEPT ![t].res = "ENOMEM"]
            /\ pc' = [pc EXCEPT ![t] = AfterAddAdapter(op[t].kind, "ENOMEM")]
            /\ UNCHANGED sessVars
       ELSE /\ scst_local_sess_num < MaxSess
            /\ LET n == atomic_inc_return(scst_local_sess_num)
               IN  /\ scst_local_sess_num' = n
                   /\ sessTgt' = [sessTgt EXCEPT ![n] = op[t].tgt]
                   /\ sessName' = [sessName EXCEPT ![n] = op[t].sname]
                   /\ IF fail = "EFAULT"
                      THEN /\ sessState' = [sessState EXCEPT ![n] = "released"]
                           /\ op' = [op EXCEPT ![t].res = "EFAULT"]
                           /\ pc' = [pc EXCEPT ![t] = AfterAddAdapter(op[t].kind, "EFAULT")]
                      ELSE /\ sessState' = [sessState EXCEPT ![n] = "registered"]
                           /\ op' = [op EXCEPT ![t].sess = n]
                           /\ pc' = [pc EXCEPT ![t] = "aa_dev"]
            /\ UNCHANGED <<unregistering, shost, rm, removeStarts>>
    /\ UNCHANGED <<regVars, queueVars, workVars, aenVars, ackVars, lockVars, tmVars, cmdVars, tidVars>>

\* __scst_local_add_adapter: device_register (whose probe sets sess->shost)
\* and sysfs_create_link, with their rollbacks:
\*   device_register fails: scst_unregister_session(sess, true, NULL), kfree;
\*   the link fails: device_unregister, which removes and releases the device
AddAdapterDevice(t, fail) ==
    /\ pc[t] = "aa_dev"
    /\ LET n == op[t].sess
       IN  CASE fail = "devreg" ->
                  /\ sessState' = [sessState EXCEPT ![n] = "released"]
                  /\ op' = [op EXCEPT ![t].res = "EEXIST"]
                  /\ pc' = [pc EXCEPT ![t] = AfterAddAdapter(op[t].kind, "EEXIST")]
                  /\ UNCHANGED <<shost, rm>>
             [] fail = "link" ->
                  /\ shost' = [shost EXCEPT ![n] = TRUE]
                  /\ rm' = [rm EXCEPT ![n] = "detach"]
                  /\ op' = [op EXCEPT ![t].res = "ENOMEM"]
                  /\ pc' = [pc EXCEPT ![t] = "aa_wait"]
                  /\ UNCHANGED sessState
             [] OTHER ->
                  /\ shost' = [shost EXCEPT ![n] = TRUE]
                  /\ pc' = [pc EXCEPT ![t] = "aa_link"]
                  /\ UNCHANGED <<sessState, rm, op>>
    /\ UNCHANGED <<regVars, scst_local_sess_num, sessName, sessTgt, unregistering, removeStarts, queueVars, workVars, aenVars, ackVars, lockVars, tmVars, cmdVars, tidVars>>

\* __scst_local_add_adapter: device_unregister of the rollback has returned
AddAdapterRolledBack(t) ==
    /\ pc[t] = "aa_wait"
    /\ rm[op[t].sess] = "done"
    /\ pc' = [pc EXCEPT ![t] = AfterAddAdapter(op[t].kind, op[t].res)]
    /\ UNCHANGED <<regVars, sessVars, queueVars, workVars, aenVars, ackVars, lockVars, op, tmVars, cmdVars, tidVars>>

\* __scst_local_add_adapter: list_add_tail to tgt->sessions_list, under
\* scst_local_mutex (taken here unless the caller holds it)
AddAdapterLink(t) ==
    /\ pc[t] = "aa_link"
    /\ scst_local_mutex = IF op[t].locked THEN t ELSE "none"
    /\ sessions_list' = [sessions_list EXCEPT ![op[t].tgt] = Append(@, op[t].sess)]
    /\ sessState' = [sessState EXCEPT ![op[t].sess] = "active"]
    /\ pc' = [pc EXCEPT ![t] = AfterAddAdapter(op[t].kind, "OK")]
    /\ UNCHANGED <<scst_local_tgts_list, tgtState, tgtName, nextTgt, scst_local_sess_num, sessName, sessTgt, unregistering, shost, rm, removeStarts, queueVars, workVars, aenVars, ackVars, lockVars, op, tmVars, cmdVars, tidVars>>

\* scst_local_remove_target: mutex_lock before __scst_local_remove_target
\* (the rollback of scst_local_sysfs_add_target)
RemoveTargetLock(t) ==
    /\ pc[t] = "rt_lock"
    /\ scst_local_mutex = "none"
    /\ scst_local_mutex' = t
    /\ op' = [op EXCEPT ![t].seen = {}, ![t].sess = NoSess]
    /\ pc' = [pc EXCEPT ![t] = "rt_loop"]
    /\ UNCHANGED <<regVars, sessVars, queueVars, workVars, aenVars, ackVars, exit_rwsem, aen_workqueue, tmVars, cmdVars, tidVars>>

\* the sessions of tgt->sessions_list the loop of __scst_local_remove_target
\* has not visited yet
Unvisited(t) == SelectSeq(sessions_list[op[t].tgt], LAMBDA x : x \notin op[t].seen)

\* __scst_local_remove_target, called under scst_local_mutex: one iteration
\* of the loop, scst_local_close_session_impl(sess, false) on the next
\* session; the iteration ends when the inline removal has returned
RemoveTargetSession(t) ==
    /\ pc[t] = "rt_loop"
    /\ op[t].sess # NoSess => rm[op[t].sess] = "done"
    /\ Unvisited(t) # <<>>
    /\ LET s == Head(Unvisited(t))
       IN  /\ unregistering' = [unregistering EXCEPT ![s] = LatchAfterClose(@)]
           /\ IF CloseProceeds(unregistering[s])
              THEN /\ rm' = [rm EXCEPT ![s] = "unlink"]
                   /\ removeStarts' = [removeStarts EXCEPT ![s] = Min(@ + 1, 2)]
                   /\ op' = [op EXCEPT ![t].sess = s, ![t].seen = @ \cup {s}]
              ELSE /\ op' = [op EXCEPT ![t].sess = NoSess, ![t].seen = @ \cup {s}]
                   /\ UNCHANGED <<rm, removeStarts>>
    /\ UNCHANGED <<regVars, scst_local_sess_num, sessState, sessName, sessTgt, shost, queueVars, workVars, aenVars, ackVars, lockVars, pc, tmVars, cmdVars, tidVars>>

\* scst_unregister_target, a call into the engine: it unregisters the target
\* by name and returns, whatever the state of the sessions created on it
scst_unregister_target_returns(tg) == TRUE

\* __scst_local_remove_target: after the loop, list_del of the target,
\* scst_unregister_target, kfree
RemoveTargetFree(t) ==
    /\ pc[t] = "rt_loop"
    /\ scst_unregister_target_returns(op[t].tgt)
    /\ op[t].sess # NoSess => rm[op[t].sess] = "done"
    /\ Unvisited(t) = <<>>
    /\ scst_local_tgts_list' = SeqRemove(scst_local_tgts_list, op[t].tgt)
    /\ tgtState' = [tgtState EXCEPT ![op[t].tgt] = "freed"]
    /\ op' = [op EXCEPT ![t].sess = NoSess, ![t].seen = {}]
    /\ pc' = [pc EXCEPT ![t] = IF t = "exit" THEN "x_next" ELSE "ret"]
    /\ UNCHANGED <<tgtName, sessions_list, nextTgt, sessVars, queueVars, workVars, aenVars, ackVars, lockVars, tmVars, cmdVars, tidVars>>

\* scst_local_sysfs_del_target: the trylock, mutex_lock and the lookup by
\* name; -ENOENT when no target has the name
SysfsDelTarget(t, name) ==
    /\ pc[t] = "idle"
    /\ IF ~down_read_trylock(exit_rwsem)
       THEN EnterRefused(t, "del_target", name, "", FALSE)
       ELSE /\ scst_local_mutex = "none"
            /\ exit_rwsem' = [exit_rwsem EXCEPT !.readers = @ \cup {t}]
            /\ LET tg == FindTarget(name)
               IN  IF tg = NoTgt
                   THEN /\ op' = [op EXCEPT ![t] = [NoOp EXCEPT !.kind = "del_target", !.name = name,
                                   !.res = "ENOENT"]]
                        /\ pc' = [pc EXCEPT ![t] = "ret"]
                        /\ UNCHANGED scst_local_mutex
                   ELSE /\ scst_local_mutex' = t
                        /\ op' = [op EXCEPT ![t] = [NoOp EXCEPT !.kind = "del_target", !.name = name,
                                   !.tgt = tg]]
                        /\ pc' = [pc EXCEPT ![t] = "rt_loop"]
            /\ UNCHANGED <<regVars, sessVars, queueVars, workVars, aenVars, ackVars, aen_workqueue, tmVars, cmdVars, tidVars>>

\* scst_local_sysfs_mgmt_cmd: the trylock, mutex_lock, the lookup of the
\* target and, for del_session, of the session and the mark step of
\* scst_local_close_session_impl(sess, false); -EINVAL when either is missing
SysfsMgmtCmd(t, kind, name, sname) ==
    /\ pc[t] = "idle"
    /\ IF ~down_read_trylock(exit_rwsem)
       THEN EnterRefused(t, kind, name, sname, FALSE)
       ELSE /\ scst_local_mutex = "none"
            /\ exit_rwsem' = [exit_rwsem EXCEPT !.readers = @ \cup {t}]
            /\ LET tg == FindTarget(name)
                   s == IF tg = NoTgt THEN NoSess ELSE FindSession(tg, sname)
                   call == [NoOp EXCEPT !.kind = kind, !.name = name, !.sname = sname]
               IN  CASE tg = NoTgt \/ (kind = "del_session" /\ s = NoSess) ->
                          /\ op' = [op EXCEPT ![t] = [call EXCEPT !.res = "EINVAL"]]
                          /\ pc' = [pc EXCEPT ![t] = "ret"]
                          /\ UNCHANGED <<scst_local_mutex, unregistering, rm, removeStarts>>
                     [] tg # NoTgt /\ kind = "add_session" ->
                          /\ scst_local_mutex' = t
                          /\ op' = [op EXCEPT ![t] = [call EXCEPT !.tgt = tg, !.locked = TRUE]]
                          /\ pc' = [pc EXCEPT ![t] = "aa_alloc"]
                          /\ UNCHANGED <<unregistering, rm, removeStarts>>
                     [] OTHER ->
                          /\ unregistering' = [unregistering EXCEPT ![s] = LatchAfterClose(@)]
                          /\ op' = [op EXCEPT ![t] = [call EXCEPT !.tgt = tg, !.sess = s]]
                          /\ IF CloseProceeds(unregistering[s])
                             THEN /\ rm' = [rm EXCEPT ![s] = "unlink"]
                                  /\ removeStarts' = [removeStarts EXCEPT ![s] = Min(@ + 1, 2)]
                                  /\ scst_local_mutex' = t
                                  /\ pc' = [pc EXCEPT ![t] = "ds_wait"]
                             ELSE /\ pc' = [pc EXCEPT ![t] = "ret"]
                                  /\ UNCHANGED <<rm, removeStarts, scst_local_mutex>>
            /\ UNCHANGED <<regVars, scst_local_sess_num, sessState, sessName, sessTgt, shost, queueVars, workVars, aenVars, ackVars, aen_workqueue, tmVars, cmdVars, tidVars>>

\* scst_local_sysfs_mgmt_cmd, del_session: the inline scst_local_remove_adapter
\* has returned
DelSessionRemoved(t) ==
    /\ pc[t] = "ds_wait"
    /\ rm[op[t].sess] = "done"
    /\ pc' = [pc EXCEPT ![t] = "ret"]
    /\ UNCHANGED <<regVars, sessVars, queueVars, workVars, aenVars, ackVars, lockVars, op, tmVars, cmdVars, tidVars>>

\* the show and store operations of the target and session attributes
\* (scst_local_scsi_transport_version_show and the like): the trylock and the
\* read or write of the attribute
SysfsAttribute(t) ==
    /\ pc[t] = "idle"
    /\ IF ~down_read_trylock(exit_rwsem)
       THEN EnterRefused(t, "attr", "", "", FALSE)
       ELSE /\ exit_rwsem' = [exit_rwsem EXCEPT !.readers = @ \cup {t}]
            /\ op' = [op EXCEPT ![t] = [NoOp EXCEPT !.kind = "attr"]]
            /\ pc' = [pc EXCEPT ![t] = "ret"]
            /\ UNCHANGED <<regVars, sessVars, queueVars, workVars, aenVars, ackVars, scst_local_mutex, aen_workqueue, tmVars, cmdVars, tidVars>>

\* an exit path that leaves the mutex as it is
mutex_unlock_skipped(m, t) == m

\* mutex_unlock(&scst_local_mutex) on the exit paths of the entry points
\* that took it
mutex_unlock(m, t) == IF m = t THEN "none" ELSE m

\* the exits of the entry points: mutex_unlock where the mutex is
\* held, up_read where the rwsem is held, return res
AdminReturn(t) ==
    /\ pc[t] = "ret"
    /\ scst_local_mutex' = mutex_unlock(scst_local_mutex, t)
    /\ exit_rwsem' = [exit_rwsem EXCEPT !.readers = @ \ {t}]
    /\ op' = [op EXCEPT ![t] = NoOp]
    /\ pc' = [pc EXCEPT ![t] = "idle"]
    /\ UNCHANGED <<regVars, sessVars, queueVars, workVars, aenVars, ackVars, aen_workqueue, tmVars, cmdVars, tidVars>>

(* ------------------------------ module exit --------------------------- *)
\* a down_write that does not wait for the readers
down_write_ignores_readers(sem) == ~sem.writer

\* down_write: granted when no reader and no writer holds the rwsem
down_write_granted(sem) == sem.readers = {} /\ ~sem.writer

\* scst_local_exit: down_write(&scst_local_exit_rwsem)
ExitDownWrite ==
    /\ pc["exit"] = "idle"
    /\ down_write_granted(exit_rwsem)
    /\ exit_rwsem' = [exit_rwsem EXCEPT !.writer = TRUE]
    /\ op' = [op EXCEPT !["exit"] = [NoOp EXCEPT !.kind = "exit"]]
    /\ pc' = [pc EXCEPT !["exit"] = "x_lock"]
    /\ UNCHANGED <<regVars, sessVars, queueVars, workVars, aenVars, ackVars, scst_local_mutex, aen_workqueue, tmVars, cmdVars, tidVars>>

\* scst_local_exit: mutex_lock(&scst_local_mutex)
ExitLock ==
    /\ pc["exit"] = "x_lock"
    /\ scst_local_mutex = "none"
    /\ scst_local_mutex' = "exit"
    /\ pc' = [pc EXCEPT !["exit"] = "x_next"]
    /\ UNCHANGED <<regVars, sessVars, queueVars, workVars, aenVars, ackVars, exit_rwsem, aen_workqueue, op, tmVars, cmdVars, tidVars>>

\* a loop over scst_local_tgts_list that is never entered
ExitLoopSkipped(tl) == FALSE

\* scst_local_exit: whether the loop over scst_local_tgts_list goes on
ExitLoopGoesOn(tl) == tl # <<>>

\* scst_local_exit: the loop over scst_local_tgts_list calls
\* __scst_local_remove_target on the next target
ExitNextTarget ==
    /\ pc["exit"] = "x_next"
    /\ ExitLoopGoesOn(scst_local_tgts_list)
    /\ op' = [op EXCEPT !["exit"].tgt = Head(scst_local_tgts_list), !["exit"].seen = {}, !["exit"].sess = NoSess]
    /\ pc' = [pc EXCEPT !["exit"] = "rt_loop"]
    /\ UNCHANGED <<regVars, sessVars, queueVars, workVars, aenVars, ackVars, lockVars, tmVars, cmdVars, tidVars>>

\* scst_local_exit: mutex_unlock after the loop
ExitUnlock ==
    /\ pc["exit"] = "x_next"
    /\ ~ExitLoopGoesOn(scst_local_tgts_list)
    /\ scst_local_mutex' = "none"
    /\ pc' = [pc EXCEPT !["exit"] = "x_destroy"]
    /\ UNCHANGED <<regVars, sessVars, queueVars, workVars, aenVars, ackVars, exit_rwsem, aen_workqueue, op, tmVars, cmdVars, tidVars>>

\* scst_local_exit: destroy_workqueue, which first runs every queued work to
\* its end; driver_unregister, whose bus remove callback
\* (scst_local_driver_remove) detaches the host of every device still bound
ExitDestroy ==
    /\ pc["exit"] = "x_destroy"
    /\ \A s \in SessIds : ~workPending[s] /\ wpc[s] = "idle"
    /\ aen_workqueue' = "destroyed"
    /\ shost' = [s \in SessIds |-> FALSE]
    /\ pc' = [pc EXCEPT !["exit"] = "x_up"]
    /\ UNCHANGED <<regVars, scst_local_sess_num, sessState, sessName, sessTgt, unregistering, rm, removeStarts, queueVars, workVars, aenVars, ackVars, exit_rwsem, scst_local_mutex, op, tmVars, cmdVars, tidVars>>

\* scst_local_exit: up_write(&scst_local_exit_rwsem) and return
ExitUpWrite ==
    /\ pc["exit"] = "x_up"
    /\ exit_rwsem' = [exit_rwsem EXCEPT !.writer = FALSE]
    /\ pc' = [pc EXCEPT !["exit"] = "done"]
    /\ UNCHANGED <<regVars, sessVars, queueVars, workVars, aenVars, ackVars, scst_local_mutex, aen_workqueue, op, tmVars, cmdVars, tidVars>>

(* --------------------------- task management -------------------------- *)
mainVars == <<regVars, sessVars, queueVars, workVars, aenVars, ackVars, lockVars, thrVars, cmdVars, tidVars>>

\* scst_local_abort / scst_local_device_reset / scst_local_target_reset:
\* DECLARE_COMPLETION_ONSTACK and scst_rx_mgmt_fn_tag / scst_rx_mgmt_fn_lun,
\* which the engine accepts (0) or rejects (a negative errno, here -1)
MgmtSubmit(m, fn, accepted) ==
    /\ mpc[m] = "idle"
    /\ \A k \in MgmtIds : k < m => mpc[k] # "idle"
    /\ mfn' = [mfn EXCEPT ![m] = fn]
    /\ mret' = [mret EXCEPT ![m] = IF accepted THEN 0 ELSE -1]
    /\ mEngine' = [mEngine EXCEPT ![m] = IF accepted THEN "pending" ELSE "none"]
    /\ mCompl' = [mCompl EXCEPT ![m] = "live"]
    /\ mpc' = [mpc EXCEPT ![m] = "wait"]
    /\ UNCHANGED <<mainVars, mResult, mLate, mFound, num_aborts, num_dev_resets, num_target_resets>>

\* scst_local_targ_task_mgmt_done: complete() on the completion the mgmt
\* command carries; the engine calls it once per accepted function, whether
\* or not it found the addressed command or device
TaskMgmtDone(m, found) ==
    /\ mEngine[m] = "pending"
    /\ mEngine' = [mEngine EXCEPT ![m] = "fired"]
    /\ mFound' = [mFound EXCEPT ![m] = found]
    /\ mCompl' = [mCompl EXCEPT ![m] = IF @ = "live" THEN "done" ELSE @]
    /\ mLate' = [mLate EXCEPT ![m] = mCompl[m] = "dead"]
    /\ UNCHANGED <<mainVars, mpc, mfn, mret, mResult, num_aborts, num_dev_resets, num_target_resets>>

\* if (ret == 0) ret = SUCCESS
MgmtReturnValue(ret) == IF ret = 0 THEN "SUCCESS" ELSE "ERR"

\* an increment of every counter, whatever the function called
CounterAfterAny(counter, own, fn) == counter + 1

\* atomic_inc of the counter of the function called
CounterAfter(counter, own, fn) == IF fn = own THEN counter + 1 ELSE counter

\* the tail of the three handlers, once wait_for_completion_interruptible
\* has returned: atomic_inc, the return value; the on-stack completion dies
\* with the frame
MgmtFinish(m) ==
    /\ num_aborts' = CounterAfter(num_aborts, "abort", mfn[m])
    /\ num_dev_resets' = CounterAfter(num_dev_resets, "lun_reset", mfn[m])
    /\ num_target_resets' = CounterAfter(num_target_resets, "target_reset", mfn[m])
    /\ mResult' = [mResult EXCEPT ![m] = MgmtReturnValue(mret[m])]
    /\ mCompl' = [mCompl EXCEPT ![m] = "dead"]
    /\ mpc' = [mpc EXCEPT ![m] = "ret"]
    /\ UNCHANGED <<mainVars, mfn, mret, mEngine, mLate, mFound>>

\* wait_for_completion_interruptible returns 0: the completion was signalled
MgmtWake(m) ==
    /\ mpc[m] = "wait"
    /\ mCompl[m] = "done"
    /\ MgmtFinish(m)

\* wait_for_completion_interruptible returns -ERESTARTSYS: a signal is
\* pending for the calling thread and the completion is not yet signalled
MgmtInterrupt(m) ==
    /\ mpc[m] = "wait"
    /\ mCompl[m] = "live"
    /\ MgmtFinish(m)

(* ------------------------------ commands ------------------------------ *)
\* a latch test that lets every command through
CmdNeverRefused(latch) == FALSE

\* scst_local_queuecommand: if (sess->unregistering)
CmdRefused(latch) == latch

\* scst_local_queuecommand, from entry to the latch test, read without
\* aen_lock: DID_BAD_TARGET and scsi_done when the latch is set. The SCSI
\* mid-layer queues commands to a host until scsi_remove_host.
QueueCommand(c, s) ==
    /\ cpc[c] = "new"
    /\ \A d \in CmdIds : d < c => cpc[d] # "new"
    /\ shost[s]
    /\ cmdSess' = [cmdSess EXCEPT ![c] = s]
    /\ IF CmdRefused(unregistering[s])
       THEN /\ cpc' = [cpc EXCEPT ![c] = "bad_target"]
            /\ cmdDone' = [cmdDone EXCEPT ![c] = @ + 1]
       ELSE /\ cpc' = [cpc EXCEPT ![c] = "rx"]
            /\ UNCHANGED cmdDone
    /\ UNCHANGED <<regVars, sessVars, queueVars, workVars, aenVars, ackVars, lockVars, thrVars, tmVars, cmdLate, cmdResp, tidVars>>

\* scst_local_queuecommand: scst_rx_cmd, which gives the engine's command
\* or NULL (SCSI_MLQUEUE_HOST_BUSY)
CmdRx(c, ok) ==
    /\ cpc[c] = "rx"
    /\ cpc' = [cpc EXCEPT ![c] = IF ok THEN "init" ELSE "busy"]
    /\ cmdLate' = [cmdLate EXCEPT ![c] = ok /\ unregistering[cmdSess[c]]]
    /\ UNCHANGED <<regVars, sessVars, queueVars, workVars, aenVars, ackVars, lockVars, thrVars, tmVars, cmdSess, cmdDone, cmdResp, tidVars>>

\* scst_local_queuecommand: the tag, queue type and buffers are set and
\* scst_cmd_init_done hands the command to the engine
CmdInitDone(c) ==
    /\ cpc[c] = "init"
    /\ cpc' = [cpc EXCEPT ![c] = "engine"]
    /\ cmdLate' = [cmdLate EXCEPT ![c] = @ \/ unregistering[cmdSess[c]]]
    /\ UNCHANGED <<regVars, sessVars, queueVars, workVars, aenVars, ackVars, lockVars, thrVars, tmVars, cmdSess, cmdDone, cmdResp, tidVars>>

\* a test that never sees the abort flag
aborted_on_xmit_ignored(flag) == FALSE

\* scst_local_targ_xmit_response: if (unlikely(scst_cmd_aborted_on_xmit(scst_cmd)))
scst_cmd_aborted_on_xmit(flag) == flag

\* scst_local_targ_xmit_response, the engine's completion callback, on a
\* command the engine holds: an aborted command gets its delivery status and
\* scst_tgt_cmd_done; otherwise, when status is to be sent, the residual is
\* set and scst_local_send_resp copies the sense (if valid) and the status
\* and calls done; scst_tgt_cmd_done ends every path
TargXmitResponse(c, aborted, send_status, sense_valid) ==
    /\ cpc[c] = "engine"
    /\ cpc' = [cpc EXCEPT ![c] = "responded"]
    /\ IF scst_cmd_aborted_on_xmit(aborted)
       THEN /\ cmdResp' = [cmdResp EXCEPT ![c] = [aborted |-> aborted, delivery |-> "ABORTED",
                                                   copied |-> {}, tgt_done |-> @.tgt_done + 1]]
            /\ UNCHANGED cmdDone
       ELSE IF send_status
       THEN /\ cmdResp' = [cmdResp EXCEPT ![c] = [aborted |-> aborted, delivery |-> "none",
                               copied |-> {"resid", "status"} \cup (IF sense_valid THEN {"sense"} ELSE {}),
                               tgt_done |-> @.tgt_done + 1]]
            /\ cmdDone' = [cmdDone EXCEPT ![c] = @ + 1]
       ELSE /\ cmdResp' = [cmdResp EXCEPT ![c] = [aborted |-> aborted, delivery |-> "none",
                                                   copied |-> {}, tgt_done |-> @.tgt_done + 1]]
            /\ UNCHANGED cmdDone
    /\ UNCHANGED <<regVars, sessVars, queueVars, workVars, aenVars, ackVars, lockVars, thrVars, tmVars, cmdSess, cmdLate, tidVars>>

(* ----------------------------- Transport IDs -------------------------- *)
\* scst_local_get_sas_transport_id: the 24 bytes of the SAS TransportID made
\* for sess->number, a kzalloc'ed buffer with bytes 0 and 4..11 set;
\* each byte is a uint8_t
scst_local_get_sas_transport_id(number) ==
    [i \in 0..23 |->
        CASE i = 0 -> 6                                          \* SCSI_TRANSPORTID_PROTOCOLID_SAS
          [] i = 4 -> 95                                         \* 0x5F
          [] i = 5 -> 238                                        \* 0xEE
          [] i = 6 -> 222                                        \* 0xDE
          [] i = 7 -> (64 + ((number \div 16) % 16)) % 256       \* 0x40 | ((number >> 4) & 0x0F)
          [] i = 8 -> (15 + ((number % 16) * 16)) % 256          \* 0x0F | ((number & 0x0F) << 4)
          [] i = 9 -> 173                                        \* 0xAD
          [] i = 10 -> 224                                       \* 0xE0
          [] i = 11 -> 80                                        \* 0x50
          [] OTHER -> 0]

\* scst_local_get_initiator_port_transport_id for a session whose
\* sess->transport_id is NULL (no override stored): the default Transport ID
\* under tr_id_mutex; when its kzalloc fails *transport_id is not written
GetInitiatorPortTransportId(x, alloc_ok) ==
    /\ IF alloc_ok
       THEN transport_id' = [transport_id EXCEPT ![x] = scst_local_get_sas_transport_id(tidNumber[x])]
       ELSE UNCHANGED transport_id
    /\ UNCHANGED <<regVars, sessVars, queueVars, workVars, aenVars, ackVars, lockVars, thrVars, tmVars, cmdVars, tidNumber>>

(* ---------------------------- specifications -------------------------- *)
MgmtFns == {"abort", "lun_reset", "target_reset"}

AenNext ==
    \/ \E a \in AenIds, s \in SessIds, ok \in BOOLEAN :
           ReportEnqueue(a, s, "SCST_AEN_SCSI", ok)
    \/ \E a \in AenIds, s \in SessIds : ReportEnqueue(a, s, "OTHER", TRUE)
    \/ \E a \in AenIds, b \in BOOLEAN : ReportSchedule(a, b)
    \/ \E s \in SessIds : WorkStart(s)
    \/ \E s \in SessIds : WorkPop(s)
    \/ \E s \in SessIds : WorkRescan(s)
    \/ \E s \in SessIds : WorkAck(s)

RemovalSteps ==
    \/ \E s \in SessIds : CloseSessionAsync(s)
    \/ \E s \in SessIds : RemoveWorkFn(s)
    \/ \E s \in SessIds : RemoveAdapterUnlink(s)
    \/ \E s \in SessIds : DriverRemove(s)
    \/ \E s \in SessIds : ReleaseCancel(s)
    \/ \E s \in SessIds : ReleaseDrainEnd(s)
    \/ \E s \in SessIds : ReleaseUnregister(s)

RemovalNext ==
    \/ RemovalSteps
    \/ \E s \in SessIds : ReleaseDrainItem(s)

AdminNext ==
    \/ \E t \in Admins, n \in TgtNames, w \in BOOLEAN, f \in {"none", "ENOMEM", "EFAULT"} :
           SysfsAddTarget(t, n, w, f)
    \/ \E t \in Admins, n \in TgtNames : SysfsDelTarget(t, n)
    \/ \E t \in Admins, k \in {"add_session", "del_session"}, n \in TgtNames, sn \in InitNames :
           SysfsMgmtCmd(t, k, n, sn)
    \/ \E t \in Admins, f \in {"none", "ENOMEM", "EFAULT"} : AddAdapterAlloc(t, f)
    \/ \E t \in Admins, f \in {"none", "devreg", "link"} : AddAdapterDevice(t, f)
    \/ \E t \in Admins : AddAdapterRolledBack(t)
    \/ \E t \in Admins : AddAdapterLink(t)
    \/ \E t \in Admins : RemoveTargetLock(t)
    \/ \E t \in Threads : RemoveTargetSession(t)
    \/ \E t \in Threads : RemoveTargetFree(t)
    \/ \E t \in Admins : DelSessionRemoved(t)
    \/ \E t \in Admins : AdminReturn(t)

AttrNext == \E t \in Admins : SysfsAttribute(t)

\* del_target called with a name no target has
AbsentNext == \E t \in Admins, n \in AbsentNames : SysfsDelTarget(t, n)

ExitNext ==
    \/ ExitDownWrite
    \/ ExitLock
    \/ ExitNextTarget
    \/ ExitUnlock
    \/ ExitDestroy
    \/ ExitUpWrite

Next == AenNext \/ RemovalNext \/ AdminNext \/ AttrNext \/ AbsentNext \/ ExitNext

SpecAll == Init /\ [][Next]_vars

\* sessions, their AENs and their removal, without module exit
Spec == Init /\ [][AenNext \/ RemovalNext \/ AdminNext]_vars

\* the registry and the exit rwsem, without AEN traffic
SpecExit == Init /\ [][RemovalSteps \/ AdminNext \/ AttrNext \/ AbsentNext \/ ExitNext]_vars

TMNext ==
    \/ \E m \in MgmtIds, fn \in MgmtFns, acc \in BOOLEAN : MgmtSubmit(m, fn, acc)
    \/ \E m \in MgmtIds, found \in BOOLEAN : TaskMgmtDone(m, found)
    \/ \E m \in MgmtIds : MgmtWake(m)
    \/ \E m \in MgmtIds : MgmtInterrupt(m)

SpecTM == Init /\ [][TMNext]_vars

CmdNext ==
    \/ \E c \in CmdIds, s \in SessIds : QueueCommand(c, s)
    \/ \E c \in CmdIds, ok \in BOOLEAN : CmdRx(c, ok)
    \/ \E c \in CmdIds : CmdInitDone(c)
    \/ \E c \in CmdIds, ab, st, sn \in BOOLEAN : TargXmitResponse(c, ab, st, sn)

\* commands and the closing of their session
SpecCmd == Init /\ [][CmdNext \/ RemovalSteps]_vars

\* add_target with an initial session and del_target, called by two threads
RaceNext ==
    \/ \E t \in Racers, n \in TgtNames, f \in {"none", "ENOMEM", "EFAULT"} :
           SysfsAddTarget(t, n, TRUE, f)
    \/ \E t \in Racers, n \in TgtNames : SysfsDelTarget(t, n)
    \/ \E t \in Racers, f \in {"none", "ENOMEM", "EFAULT"} : AddAdapterAlloc(t, f)
    \/ \E t \in Racers, f \in {"none", "devreg", "link"} : AddAdapterDevice(t, f)
    \/ \E t \in Racers : AddAdapterRolledBack(t)
    \/ \E t \in Racers : AddAdapterLink(t)
    \/ \E t \in Racers : RemoveTargetLock(t)
    \/ \E t \in Racers : RemoveTargetSession(t)
    \/ \E t \in Racers : RemoveTargetFree(t)
    \/ \E t \in Racers : AdminReturn(t)

\* two management callers and the removals they start
SpecRace == Init /\ [][RaceNext \/ RemovalSteps]_vars

\* the teardown entry points alone: del_target, del_session and module exit
TeardownNext ==
    \/ \E t \in Admins, n \in TgtNames : SysfsDelTarget(t, n)
    \/ \E t \in Admins, n \in TgtNames, sn \in InitNames : SysfsMgmtCmd(t, "del_session", n, sn)
    \/ \E t \in Threads : RemoveTargetSession(t)
    \/ \E t \in Threads : RemoveTargetFree(t)
    \/ \E t \in Admins : DelSessionRemoved(t)
    \/ \E t \in Admins : AdminReturn(t)
    \/ ExitNext

\* a thread that runs a removal, and the worker once it has started, go on
\* running; nothing is assumed about the engine's reports or about when a
\* pending work starts
TeardownFairness ==
    /\ \A s \in SessIds :
           /\ WF_vars(RemoveAdapterUnlink(s)) /\ WF_vars(DriverRemove(s))
           /\ WF_vars(ReleaseCancel(s)) /\ WF_vars(ReleaseDrainItem(s))
           /\ WF_vars(ReleaseDrainEnd(s)) /\ WF_vars(ReleaseUnregister(s))
           /\ WF_vars(WorkPop(s)) /\ WF_vars(WorkRescan(s)) /\ WF_vars(WorkAck(s))
    /\ \A t \in Threads :
           WF_vars(RemoveTargetSession(t)) /\ WF_vars(RemoveTargetFree(t))
    /\ \A t \in Admins : WF_vars(DelSessionRemoved(t))

\* teardown against report and the worker, with running threads making progress
SpecLive == Init /\ [][AenNext \/ RemovalNext \/ TeardownNext]_vars /\ TeardownFairness

\* a remove_work handed to schedule_work is run in the end
RemoveWorkFairness == \A s \in SessIds : WF_vars(RemoveWorkFn(s))

\* the same, with the scheduled removal running in the end as well
SpecFair ==
    Init /\ [][AenNext \/ RemovalNext \/ TeardownNext]_vars /\ TeardownFairness /\ RemoveWorkFairness

\* the engine asking the sessions' Transport IDs
TidNext == \E x \in TidSlots, alloc_ok \in BOOLEAN : GetInitiatorPortTransportId(x, alloc_ok)

SpecTid == TidInit /\ [][TidNext]_vars

(* ------------------------------- claims ------------------------------- *)
\* the item was accepted by scst_local_report_aen: it was put on a list
Accepted(a) == aenPc[a] \in {"enq", "done"}

\* C1: no AEN item that report_aen accepted is acknowledged (scst_aen_done)
\* more than once, by the worker or by the cleanup-only pass of the removal
C1_NoDoubleAck == \A a \in AenIds : acks[a] <= 1 /\ (acks[a] = 1 => Accepted(a))

\* C1: two items of one session, one acknowledged by the worker after its
\* rescan, the other by the cleanup-only pass
C1_Witness ==
    \E a, b \in AenIds :
        /\ a # b /\ Accepted(a) /\ Accepted(b) /\ aenSess[a] = aenSess[b]
        /\ acks[a] = 1 /\ delivery[a] = "rescan"
        /\ acks[b] = 1 /\ delivery[b] = "drain"

\* the item is lost: it is on the list of a session that has been released to
\* the engine (whose memory may be freed), no aen_work of the session is
\* pending or running and no report_aen call is about to queue one
Stranded(a) ==
    LET s == aenSess[a]
    IN  /\ Accepted(a) /\ acks[a] = 0
        /\ sessState[s] = "released"
        /\ a \in SeqToSet(aen_work_list[s])
        /\ ~workPending[s] /\ wpc[s] = "idle"
        /\ \A b \in AenIds : aenSess[b] = s => aenPc[b] = "done"

\* C2: every accepted AEN item is eventually acknowledged, none stays queued
\* for ever or is freed unacknowledged; as a final result: no accepted item
\* is ever lost on the list of a released session
C2_AcceptedIsAcked == \A a \in AenIds : ~Stranded(a)

\* C3: no item is delivered after the latch is set: an item still queued when
\* the latch was set is never rescanned by the worker
C3_NoRescanAfterLatch == \A a \in AenIds : delivery[a] # "late"

\* C4: however often a session is closed, asynchronously or synchronously,
\* its removal is started (run inline or scheduled) exactly once
C4_RemovalStartedOnce ==
    \A s \in SessIds :
        /\ removeStarts[s] <= 1
        /\ unregistering[s] => removeStarts[s] = 1
        /\ rm[s] \in {"sched", "unlink"} => unregistering[s]

\* C4: del_session returns from a session that the engine's close callback
\* had already marked: the second close was a no-op, the scheduled removal
\* is still the only one
C4_Witness ==
    \E t \in Admins, s \in SessIds :
        /\ pc[t] = "ret" /\ op[t].kind = "del_session" /\ op[t].sess = s /\ op[t].res = "OK"
        /\ rm[s] = "sched" /\ removeStarts[s] = 1

\* C5: when del_target returns success, every session created on the target
\* has been removed in full: unlinked, drained and released to the engine
C5_RemoveTargetRemovesAll ==
    \A t \in Admins :
        (pc[t] = "ret" /\ op[t].kind = "del_target" /\ op[t].res = "OK") =>
            \A s \in SessIds :
                (sessTgt[s] = op[t].tgt /\ sessState[s] # "none") =>
                    /\ sessState[s] = "released"
                    /\ s \notin SeqToSet(sessions_list[op[t].tgt])

\* the sessions linked in the list of a target of scst_local_tgts_list
RegistrySessions == UNION {SeqToSet(sessions_list[tg]) : tg \in SeqToSet(scst_local_tgts_list)}

C7_RefusedAfterExit ==
    pc["exit"] = "done" =>
        /\ scst_local_tgts_list = <<>>
        /\ \A t \in Admins :
               (pc[t] = "ret" /\ op[t].kind \in {"add_target", "add_session"}) =>
                   op[t].res = "ENOENT"

\* C8: while scst_local_exit holds the rwsem as writer, add_target,
\* del_target, add_session and del_session return -ENOENT in one step and
\* change neither the registry, nor a session or its latch, nor a lock
C8_RefusedWhileWriter ==
    [][\A t \in Admins :
           (/\ exit_rwsem.writer
            /\ pc[t] = "idle" /\ pc'[t] # "idle"
            /\ op'[t].kind \in {"add_target", "del_target", "add_session", "del_session"}) =>
               /\ pc'[t] = "ret" /\ op'[t].res = "ENOENT"
               /\ UNCHANGED <<regVars, sessVars, lockVars>>]_vars

\* C8: del_session was refused while the writer is held and the target it
\* names is still listed
C8_Witness ==
    /\ exit_rwsem.writer
    /\ scst_local_tgts_list # <<>>
    /\ \E t \in Admins :
           pc[t] = "ret" /\ op[t].kind = "del_session" /\ op[t].res = "ENOENT"

\* scst_local_exit is between its down_write and its up_write
ExitTearingDown == pc["exit"] \in {"x_lock", "x_next", "rt_loop", "x_destroy", "x_up"}

C10_SuccessAfterDone ==
    \A m \in MgmtIds : mResult[m] = "SUCCESS" => mEngine[m] = "fired"

\* the calls of one task-management function that have returned
Returned(fn) == {m \in MgmtIds : mpc[m] = "ret" /\ mfn[m] = fn}

\* C11: each call of scst_local_abort, scst_local_device_reset or
\* scst_local_target_reset adds exactly one to its own counter and nothing
\* to the other two, whether it was woken, interrupted or rejected
C11_CountersExact ==
    /\ num_aborts = Cardinality(Returned("abort"))
    /\ num_dev_resets = Cardinality(Returned("lun_reset"))
    /\ num_target_resets = Cardinality(Returned("target_reset"))

\* C11: a rejected abort and an interrupted target reset have both returned
C11_Witness ==
    \E m, k \in MgmtIds :
        /\ mpc[m] = "ret" /\ mfn[m] = "abort" /\ mret[m] # 0
        /\ mpc[k] = "ret" /\ mfn[k] = "target_reset" /\ mret[k] = 0 /\ mEngine[k] = "pending"
        /\ num_aborts = 1 /\ num_target_resets = 1 /\ num_dev_resets = 0

\* C12: a call whose submission the engine rejected does not wait on the
\* completion
C12_NoWaitWhenRejected == \A m \in MgmtIds : mpc[m] = "wait" => mret[m] = 0

\* C13: scst_local_targ_task_mgmt_done never completes a completion whose
\* stack frame is gone
C13_NoCompleteAfterReturn == \A m \in MgmtIds : ~mLate[m]

\* C14: a command that comes in with the latch of its session set is never
\* passed to the engine: it is completed at once, with DID_BAD_TARGET and one
\* scsi_done, and stays so
C14_LatchedCommandRefused ==
    [][\A c \in CmdIds :
           /\ (cpc[c] = "new" /\ cpc'[c] # "new" /\ unregistering[cmdSess'[c]]) =>
                  (cpc'[c] = "bad_target" /\ cmdDone'[c] = 1)
           /\ cpc[c] = "bad_target" => (cpc'[c] = "bad_target" /\ cmdDone'[c] = 1)]_vars

\* C14: a command was refused on a session that is being removed
C14_Witness ==
    \E c \in CmdIds :
        /\ cpc[c] = "bad_target" /\ cmdDone[c] = 1 /\ ~cmdLate[c]
        /\ unregistering[cmdSess[c]] /\ rm[cmdSess[c]] = "unlink"

\* C15: no command is passed to the engine (scst_rx_cmd, scst_cmd_init_done)
\* once the latch of its session is set
C15_NoHandOffAfterLatch == \A c \in CmdIds : ~cmdLate[c]

\* C16: the items of one session are acknowledged in the order in which
\* scst_local_report_aen put them on the list (the order of their numbers):
\* no item is acknowledged while an earlier one of its session is not
C16_AckedInOrder ==
    \A a, b \in AenIds :
        (a < b /\ Accepted(a) /\ Accepted(b) /\ aenSess[a] = aenSess[b] /\ acks[b] >= 1) =>
            acks[a] >= 1

\* the removal of the session has ended and nothing of its AEN handling is
\* still to run: no report_aen call is between its enqueue and its queue_work,
\* no aen_work is pending or running
Quiet(s) ==
    /\ rm[s] = "done"
    /\ ~workPending[s] /\ wpc[s] = "idle"
    /\ \A b \in AenIds : aenSess[b] = s => aenPc[b] # "enq"

\* C17, as claimed: a report that races with the removal of its session is
\* rejected, or accepted and then delivered: rescanned and acknowledged
C17_AcceptedIsDelivered ==
    \A a \in AenIds :
        (Accepted(a) /\ unregistering[aenSess[a]] /\ Quiet(aenSess[a])) =>
            (acks[a] = 1 /\ delivery[a] \in {"rescan", "late"})

\* C17, amended: a report that races with the removal of its session is
\* rejected and leaves nothing behind, or accepted and then acknowledged
\* exactly once, with or without a rescan
C17_AcceptedIsAcked ==
    \A a \in AenIds :
        aenSess[a] # NoSess /\ unregistering[aenSess[a]] /\ Quiet(aenSess[a]) =>
            /\ Accepted(a) => acks[a] = 1
            /\ ~Accepted(a) => acks[a] = 0 /\ delivery[a] = "none"
            /\ a \notin SeqToSet(aen_work_list[aenSess[a]])

\* C17: on a removed session one report was accepted and acknowledged by the
\* cleanup-only pass, another was rejected
C17_Witness ==
    \E a, b \in AenIds :
        /\ Accepted(a) /\ acks[a] = 1 /\ delivery[a] = "drain"
        /\ aenSess[a] = aenSess[b] /\ Quiet(aenSess[a]) /\ unregistering[aenSess[a]]
        /\ aenPc[b] = "NOT_SUPPORTED"

C19_TeardownReturns ==
    \A t \in Threads :
        (pc[t] \in {"ds_wait", "rt_loop"}) ~> (pc[t] \in {"ret", "x_next"})

\* C19: a thread holds scst_local_mutex inside cancel_work_sync while the
\* worker of that session is running with an item in hand
C19_Witness ==
    \E t \in Threads :
        /\ pc[t] \in {"ds_wait", "rt_loop"} /\ scst_local_mutex = t
        /\ op[t].sess # NoSess /\ rm[op[t].sess] = "cancel"
        /\ wpc[op[t].sess] \in {"scan", "ack"}

\* C20: scst_local_sysfs_del_target with a name that no target of
\* scst_local_tgts_list has returns -ENOENT at once, and the list of targets,
\* their names and states, their session lists and every session's latch
\* are as they were
C20_NotFoundLeavesRegistry ==
    [][\A t \in Admins :
           (/\ pc[t] = "idle" /\ pc'[t] # "idle" /\ op'[t].kind = "del_target"
            /\ ~exit_rwsem.writer
            /\ \A x \in SeqToSet(scst_local_tgts_list) : tgtName[x] # op'[t].name) =>
               /\ pc'[t] = "ret" /\ op'[t].res = "ENOENT"
               /\ UNCHANGED <<scst_local_tgts_list, tgtState, tgtName, sessions_list, unregistering>>]_vars

\* C20: del_target of a name nobody registered has answered -ENOENT, holding
\* the rwsem for reading, while the registry has a target with a session
C20_Witness ==
    \E t \in Admins :
        /\ pc[t] = "ret" /\ op[t].kind = "del_target" /\ op[t].name \in AbsentNames
        /\ op[t].res = "ENOENT" /\ t \in exit_rwsem.readers
        /\ \E tg \in SeqToSet(scst_local_tgts_list) : sessions_list[tg] # <<>>

\* C21: at most one execution of a session's aen_work is in flight; an
\* execution starts only from a pending work with none running, and it takes
\* the pending flag with it; the queue_work of a report that finds the work
\* pending or running starts no execution and leaves a pending work pending
C21_OneWorkerPerSession ==
    [][\A s \in SessIds :
           /\ wrun'[s] <= 1
           /\ wrun'[s] > wrun[s] => (workPending[s] /\ ~workPending'[s] /\ wrun[s] = 0)
           /\ \A a \in AenIds :
                  (/\ aenPc[a] = "enq" /\ aenPc'[a] = "done" /\ aenSess[a] = s
                   /\ (workPending[s] \/ wrun[s] > 0)) =>
                      (UNCHANGED workVars /\ (workPending[s] => workPending'[s]))]_vars

\* C21: a report has queued the work of a session again while its worker is
\* draining with an item in hand
C21_Witness ==
    \E s \in SessIds : wpc[s] \in {"scan", "ack"} /\ workPending[s] /\ wrun[s] = 1

\* the step is taken by thread t, or is a step of the removal that t runs
\* inline on the session it is closing
StepOf(t) ==
    \/ pc'[t] # pc[t]
    \/ op'[t] # op[t]
    \/ op[t].sess # NoSess /\ pc[t] \in {"ds_wait", "rt_loop"} /\ rm'[op[t].sess] # rm[op[t].sess]

\* C22: every step that changes scst_local_tgts_list or a sessions_list is
\* taken by a thread that holds scst_local_mutex, or that takes the free
\* mutex within the step; this includes the list_del of the removal that
\* scst_remove_work_fn runs
C22_MutationsUnderMutex ==
    [][(scst_local_tgts_list' # scst_local_tgts_list \/ sessions_list' # sessions_list) =>
           \E t \in Threads :
               /\ StepOf(t)
               /\ scst_local_mutex = t \/ (scst_local_mutex = "none" /\ pc'[t] # pc[t])]_vars

\* C23: the removal of a closed session cancels the worker and drains the
\* list before it unlinks the session and before it removes the SCSI host:
\* while the cancel and the drain are still to come, the session is on its
\* target's list and has its host
C23_CancelDrainFirst ==
    \A s \in SessIds :
        (unregistering[s] /\ rm[s] \in {"unlink", "detach", "cancel", "drain"}) =>
            (s \in SeqToSet(sessions_list[sessTgt[s]]) /\ shost[s])

\* the thread holds scst_local_exit_rwsem, for reading or for writing
HoldsBarrier(sem, t) == t \in sem.readers \/ (t = "exit" /\ sem.writer)

Removed(s) ==
    /\ rm[s] = "done" /\ sessState[s] = "released"
    /\ aen_work_list[s] = <<>>
    /\ s \notin SeqToSet(sessions_list[sessTgt[s]])

\* C25: once scst_local_close_session_impl has set the latch of a session,
\* inline or with the removal handed to schedule_work, the removal gets to
\* its end: the session is unlinked, its list is drained and it is
\* unregistered from the engine
C25_RemovalCompletes == \A s \in SessIds : unregistering[s] ~> Removed(s)

\* C25: a removal has run to its end with every thread back at rest, after
\* the cleanup pass acknowledged an item that was on the list
C25_Witness ==
    \E a \in AenIds :
        /\ Accepted(a) /\ delivery[a] = "drain"
        /\ unregistering[aenSess[a]] /\ Removed(aenSess[a])
        /\ \A t \in Threads : pc[t] = "idle"

\* C26: the unregistering latch of a session, once set, stays set through
\* every step: add_session, close, report, the worker and the removal
C26_LatchOneWay ==
    [][\A s \in SessIds : unregistering[s] => unregistering'[s]]_vars

\* C26: del_session has closed a session whose latch the engine's close
\* callback had already set, and the latch is still set
C26_Witness ==
    \E t \in Admins :
        /\ pc[t] = "ret" /\ op[t].kind = "del_session" /\ op[t].sess # NoSess
        /\ unregistering[op[t].sess] /\ rm[op[t].sess] = "sched"

\* the step is the worker's scst_aen_done of item a
WorkerAcks(a) == \E s \in SessIds : wpc[s] = "ack" /\ wcur[s] = a /\ wpc'[s] = "pop"

C28_LinkedToOneRegisteredTarget ==
    \A s \in SessIds, tg \in TgtIds :
        s \in SeqToSet(sessions_list[tg]) =>
            /\ tg = sessTgt[s]
            /\ Cardinality({i \in DOMAIN sessions_list[tg] : sessions_list[tg][i] = s}) = 1
            /\ tg \in SeqToSet(scst_local_tgts_list)

C30_WorkersIndependent ==
    \A s, r \in SessIds :
        (s # r /\ wpc[s] # "idle" /\ workPending[r] /\ aen_workqueue = "live") =>
            ENABLED WorkStart(r)

\* C31: a command that was flagged aborted when scst_local_targ_xmit_response
\* ran has the delivery status ABORTED, nothing copied into the SCSI command
\* (residual, sense, status) and one scst_tgt_cmd_done; on every path
\* scsi_done is called at most once and scst_tgt_cmd_done at most once
C31_AbortedNotCopied ==
    \A c \in CmdIds :
        /\ (cpc[c] = "responded" /\ cmdResp[c].aborted) =>
               /\ cmdResp[c].delivery = "ABORTED"
               /\ cmdResp[c].copied = {}
               /\ cmdResp[c].tgt_done = 1
               /\ cmdDone[c] = 0
        /\ cmdDone[c] <= 1
        /\ cmdResp[c].tgt_done <= 1
        /\ cpc[c] = "responded" => cmdResp[c].tgt_done = 1

\* C31: one command came back aborted and another came back with status and
\* sense
C31_Witness ==
    \E c, d \in CmdIds :
        /\ cpc[c] = "responded" /\ cmdResp[c].aborted /\ cmdResp[c].delivery = "ABORTED"
        /\ cpc[d] = "responded" /\ cmdResp[d].copied = {"resid", "status", "sense"} /\ cmdDone[d] = 1

\* C32: once the removal of a closed session has unregistered it from the
\* engine, its aen_work is neither pending nor running
C32_NoWorkAfterRelease ==
    \A s \in SessIds :
        (unregistering[s] /\ rm[s] = "done" /\ sessState[s] = "released") =>
            (~workPending[s] /\ wpc[s] = "idle")

\* C33: a thread that is inside __scst_local_add_adapter or
\* scst_local_remove_target with a target in hand works on a target that
\* has not been removed and freed
C33_NoUseAfterRemove ==
    \A t \in Racers :
        pc[t] \in {"aa_alloc", "aa_dev", "aa_wait", "aa_link", "rt_lock", "rt_loop"} =>
            tgtState[op[t].tgt] = "live"

\* C34: when del_session is about to return 0, the session it named is no
\* longer on the sessions_list of its target
C34_DelSessionUnlinks ==
    \A t \in Admins :
        (pc[t] = "ret" /\ op[t].kind = "del_session" /\ op[t].res = "OK" /\ op[t].sess # NoSess) =>
            op[t].sess \notin SeqToSet(sessions_list[op[t].tgt])

\* C35: whenever scst_local_release_adapter is at its cleanup pass, past
\* WARN_ON_ONCE(!sess->unregistering), the latch of the session is set
C35_ReleaseSeesLatch ==
    \A s \in SessIds : rm[s] \in {"drain", "unreg"} => unregistering[s]

\* every report accepted on the session has made its queue_work call
Scheduled(s) == \A a \in AenIds : aenSess[a] = s => aenPc[a] # "enq"

\* C36: while the engine holds the session and cancel_work_sync of its
\* removal has not run, a list with items on it and no report between its
\* list_add_tail and its queue_work has the aen_work pending or running
C36_NoLostWakeup ==
    \A s \in SessIds :
        (/\ EngineHolds(s) /\ rm[s] \in {"none", "sched", "unlink", "detach", "cancel"}
         /\ aen_work_list[s] # <<>> /\ Scheduled(s)) =>
            (workPending[s] \/ wpc[s] # "idle")

\* C36: an item was put on the list and the work queued again while the
\* worker was on its way back to the loop test
C36_Witness ==
    \E s \in SessIds :
        /\ EngineHolds(s) /\ rm[s] = "none" /\ Scheduled(s)
        /\ wpc[s] = "pop" /\ workPending[s] /\ Len(aen_work_list[s]) = 1
        /\ \E a \in AenIds : aenSess[a] = s /\ acks[a] = 1

\* C37 as stated: whenever the worker is at its rescan, the host is still
\* attached to the session and the worker holds a reference on it
C37_RescanOnAttachedHost ==
    \A s \in SessIds : wpc[s] = "scan" => (shost[s] /\ wshost[s])

\* C37: the worker goes to a rescan only from a pop that found the host
\* attached and took its reference in the same aen_lock section, and it holds
\* that reference throughout the rescan; an item popped after the host was
\* detached goes straight to its acknowledgement
C37_RescanHoldsReference ==
    [][\A s \in SessIds :
           /\ (wpc[s] # "scan" /\ wpc'[s] = "scan") => (wpc[s] = "pop" /\ shost[s] /\ wshost'[s])
           /\ wpc[s] = "scan" => wshost[s]
           /\ (wpc[s] = "pop" /\ wpc'[s] \notin {"pop", "idle"} /\ ~shost[s]) =>
                  (wpc'[s] = "ack" /\ ~wshost'[s])]_vars

\* C37: the worker took an item after scst_local_driver_remove had detached
\* the host and is about to acknowledge it, while the removal waits in
\* cancel_work_sync
C37_Witness ==
    \E s \in SessIds :
        wpc[s] = "ack" /\ ~wshost[s] /\ ~shost[s] /\ rm[s] = "cancel" /\ unregistering[s]

\* the positions of a thread inside __scst_local_add_adapter
AddPcs == {"aa_alloc", "aa_dev", "aa_wait", "aa_link"}

\* C38 as stated: every call of __scst_local_add_adapter, failing at
\* whichever step, advances scst_local_sess_num
C38_EveryCallAdvancesCounter ==
    [][\A t \in Admins :
           (pc[t] = "aa_alloc" /\ pc'[t] # "aa_alloc") =>
               scst_local_sess_num' = scst_local_sess_num + 1]_vars

\* C38: a step of __scst_local_add_adapter changes a sessions_list only as
\* the final list_add_tail of a call that succeeds; when the call fails, the
\* session it created, if any, is unregistered from the engine, has no host
\* and is on no list; the counter is advanced by every call except one
\* whose kzalloc failed
C38_FailedAddLeavesNothing ==
    [][\A t \in Admins :
           /\ (pc[t] \in AddPcs /\ pc'[t] # pc[t] /\ sessions_list' # sessions_list) =>
                  (pc[t] = "aa_link" /\ op'[t].res = "OK")
           /\ (pc[t] \in AddPcs /\ pc'[t] \notin AddPcs /\ op'[t].res # "OK") =>
                  /\ sessions_list' = sessions_list
                  /\ \A s \in SessIds :
                         (s = op'[t].sess \/ (s = scst_local_sess_num' /\ pc[t] = "aa_alloc"
                                              /\ scst_local_sess_num' # scst_local_sess_num)) =>
                             /\ sessState'[s] = "released" /\ ~shost'[s]
                             /\ \A tg \in TgtIds : s \notin SeqToSet(sessions_list'[tg])
           /\ (pc[t] = "aa_alloc" /\ pc'[t] # "aa_alloc") =>
                  scst_local_sess_num' =
                      IF op'[t].res = "ENOMEM" THEN scst_local_sess_num ELSE scst_local_sess_num + 1]_vars

\* C38: add_session has failed after its session got number 2, which no
\* session on the list of the target has
C38_Witness ==
    \E t \in Admins :
        /\ pc[t] = "ret" /\ op[t].kind = "add_session" /\ op[t].res # "OK"
        /\ op[t].sess = 2 /\ scst_local_sess_num = 2 /\ sessState[2] = "released"
        /\ sessions_list[op[t].tgt] = <<1>>

\* C39: two sessions with different sequence numbers, each given its default
\* Transport ID, have different Transport IDs
C39_DefaultTransportIdsDiffer ==
    \A x, y \in TidSlots :
        (transport_id[x] # NoTid /\ transport_id[y] # NoTid /\ tidNumber[x] # tidNumber[y]) =>
            transport_id[x] # transport_id[y]

\* C39: the sessions numbered 1 and 257 have both been given their default
\* Transport ID
C39_Collision ==
    /\ tidNumber[1] = 1 /\ tidNumber[2] = 257
    /\ transport_id[1] # NoTid /\ transport_id[2] # NoTid

====
